---- MODULE Spec2Model ----
(***************************************************************************)
(* Model of the zenoh file-system storage backend:                         *)
(*   src/src/lib.rs          FileSystemVolume / FileSystemStorage          *)
(*   src/src/files_mgt.rs    FilesMgr, FilesIterator, path translation     *)
(*   src/src/data_info_mgt.rs DataInfoMgr (the data-info index)            *)
(*                                                                         *)
(* Strings are sequences of tokens: the separator "/" and name pieces.     *)
(* A path component is the sequence of the pieces between two separators   *)
(* (so "a" followed by "__z__" is the one component a__z__).  A PathBuf is *)
(* the sequence of its components; all paths here are absolute.            *)
(* The file system maps resolved paths (no "..", no link in them) to nodes.*)
(***************************************************************************)
EXTENDS Integers, Sequences, FiniteSets, TLC

VARIABLES
    fs,            \* the file tree: resolved path -> node
    db,            \* the data-info database: path (as built by the code) -> record
    open,          \* a FileSystemStorage exists (created and not dropped)
    base_dir,      \* FilesMgr.base_dir, as a string
    read_only,     \* FileSystemStorage.read_only
    follow_links,  \* FilesMgr.follow_links
    keep_mime,     \* FilesMgr.keep_mime
    on_closure,    \* FilesMgr.on_closure
    now,           \* the system clock
    last,          \* the last call made on the storage and what it returned
    lock,          \* DataInfoMgr.db's Mutex: "free" or the task that holds it
    pc             \* where each task is in the DataInfoMgr function it runs

config == <<base_dir, read_only, follow_links, keep_mime, on_closure>>
vars == <<fs, db, open, config, now, last, lock, pc>>

-----------------------------------------------------------------------------
(* Bounds of the model *)

\* contents are 1..MaxContent (0 is the empty file)
MaxContent == 2
\* the clock runs from 1 to MaxNow, in seconds from an epoch of the model
MaxNow == 8

-----------------------------------------------------------------------------
(* Strings and paths *)

SEP == "/"
DotDot == <<"..">>
CONFLICT_SUFFIX == "__z__"
DB_FILENAME == <<".zenoh_datainfo">>
ROOT_KEY == <<"@root">>

\* the components of a path string: what lies between separators; empty
\* components (doubled or trailing separators) are dropped as std::path does
RECURSIVE SplitFrom(_, _, _)
SplitFrom(s, i, cur) ==
    IF i > Len(s)
    THEN IF cur = <<>> THEN <<>> ELSE <<cur>>
    ELSE IF s[i] = SEP
         THEN (IF cur = <<>> THEN <<>> ELSE <<cur>>) \o SplitFrom(s, i + 1, <<>>)
         ELSE SplitFrom(s, i + 1, Append(cur, s[i]))

PathBufFrom(s) == SplitFrom(s, 1, <<>>)

zpath_to_fspath(zpath) == zpath

\* FilesMgr::to_fspath: the base directory's string with the key pushed onto it
to_fspath(zpath) == PathBufFrom(base_dir \o zpath_to_fspath(zpath))

\* Path::parent of a path with at least one component
Parent(p) == SubSeq(p, 1, Len(p) - 1)

\* FilesMgr::get_conflict_file: the path's string with the suffix appended
get_conflict_file(file) ==
    IF file = <<>> THEN <<<<CONFLICT_SUFFIX>>>>
    ELSE [file EXCEPT ![Len(file)] = Append(@, CONFLICT_SUFFIX)]

IsPrefix(p, q) == Len(p) <= Len(q) /\ SubSeq(q, 1, Len(p)) = p

-----------------------------------------------------------------------------
(* The file system *)

NoPath == << <<"?">>, <<"?">> >>
DirNode(t) == [kind |-> "dir", mtime |-> t]
FileNode(c, t) == [kind |-> "file", content |-> c, mtime |-> t]
LinkNode(target) == [kind |-> "link", target |-> target]

Exists(f, loc) == loc \in DOMAIN f
IsDirAt(f, loc) == loc \in DOMAIN f /\ f[loc].kind = "dir"
IsFileAt(f, loc) == loc \in DOMAIN f /\ f[loc].kind = "file"
IsLinkAt(f, loc) == loc \in DOMAIN f /\ f[loc].kind = "link"

\* path resolution as the kernel does it: from the resolved directory cur,
\* walk the components p[i..]; links met on the way are followed, the last
\* component's link only when follow is set.  The result is the resolved
\* place of the last component, which need not exist; NoPath when a
\* component on the way is missing or is not a directory.
RECURSIVE Walk(_, _, _, _, _)
Walk(f, cur, p, i, follow) ==
    IF i > Len(p) THEN cur
    ELSE IF ~IsDirAt(f, cur) THEN NoPath
    ELSE IF p[i] = DotDot
         THEN Walk(f, IF cur = <<>> THEN cur ELSE Parent(cur), p, i + 1, follow)
    ELSE LET nxt == Append(cur, p[i]) IN
         IF IsLinkAt(f, nxt) /\ (i < Len(p) \/ follow)
         THEN Walk(f, f[nxt].target, p, i + 1, follow)
         ELSE IF i < Len(p) /\ ~Exists(f, nxt) THEN NoPath
         ELSE Walk(f, nxt, p, i + 1, follow)

Stat(f, p) == Walk(f, <<>>, p, 1, TRUE)
LStat(f, p) == Walk(f, <<>>, p, 1, FALSE)

exists(f, p) == Exists(f, Stat(f, p))
is_file(f, p) == IsFileAt(f, Stat(f, p))
is_dir(f, p) == IsDirAt(f, Stat(f, p))
is_symlink(f, p) == IsLinkAt(f, LStat(f, p))

Children(f, loc) == {q \in DOMAIN f : Len(q) = Len(loc) + 1 /\ IsPrefix(loc, q)}

\* adding or removing a directory entry sets the directory's modification time
Unlink(f, gone, t) ==
    [q \in DOMAIN f \ {gone} |->
        IF gone # <<>> /\ q = Parent(gone) /\ f[q].kind = "dir"
        THEN DirNode(t) ELSE f[q]]
Link(f, loc, node, t) ==
    [q \in DOMAIN f \cup {loc} |->
        IF q = loc THEN node
        ELSE IF loc # <<>> /\ q = Parent(loc) /\ f[q].kind = "dir" /\ loc \notin DOMAIN f
        THEN DirNode(t) ELSE f[q]]

\* File::create: the file at p, created or truncated
FileCreate(f, p, t) ==
    LET loc == Stat(f, p) IN
    IF loc = NoPath \/ loc = <<>> \/ IsDirAt(f, loc) \/ IsLinkAt(f, loc)
       \/ ~IsDirAt(f, Parent(loc))
    THEN [ok |-> FALSE, fs |-> f]
    ELSE [ok |-> TRUE, fs |-> Link(f, loc, FileNode(0, t), t)]

\* write_all of the whole content on the file created at p
write_all(f, p, c, t) ==
    LET loc == Stat(f, p) IN
    IF IsFileAt(f, loc) THEN [f EXCEPT ![loc] = FileNode(c, t)] ELSE f

\* std::fs::remove_file: unlinks a file or a link, never a directory
remove_file(f, p, t) ==
    LET loc == LStat(f, p) IN
    IF IsFileAt(f, loc) \/ IsLinkAt(f, loc)
    THEN [ok |-> TRUE, fs |-> Unlink(f, loc, t)]
    ELSE [ok |-> FALSE, fs |-> f]

\* std::fs::remove_dir: removes an empty directory
remove_dir(f, p, t) ==
    LET loc == LStat(f, p) IN
    IF p # <<>> /\ p[Len(p)] # DotDot /\ loc # <<>> /\ IsDirAt(f, loc)
       /\ Children(f, loc) = {}
    THEN [ok |-> TRUE, fs |-> Unlink(f, loc, t)]
    ELSE [ok |-> FALSE, fs |-> f]

\* one mkdir
MkDir(f, p, t) ==
    LET loc == LStat(f, p) IN
    IF p # <<>> /\ p[Len(p)] # DotDot /\ loc # NoPath /\ ~Exists(f, loc)
       /\ IsDirAt(f, Parent(loc))
    THEN [ok |-> TRUE, fs |-> Link(f, loc, DirNode(t), t)]
    ELSE [ok |-> FALSE, fs |-> f]

\* DirBuilder::create with recursive(true)
RECURSIVE create_dir_all(_, _, _)
create_dir_all(f, p, t) ==
    IF is_dir(f, p) THEN [ok |-> TRUE, fs |-> f]
    ELSE IF MkDir(f, p, t).ok THEN MkDir(f, p, t)
    ELSE IF p = <<>> \/ exists(f, p) \/ is_symlink(f, p) THEN [ok |-> FALSE, fs |-> f]
    ELSE LET up == create_dir_all(f, Parent(p), t) IN
         IF ~up.ok THEN up
         ELSE IF is_dir(up.fs, p) THEN up
         ELSE MkDir(up.fs, p, t)

\* std::fs::remove_dir_all
remove_dir_all(f, p, t) ==
    LET loc == LStat(f, p) IN
    IF IsLinkAt(f, loc) THEN remove_file(f, p, t)
    ELSE IF loc # <<>> /\ IsDirAt(f, loc)
    THEN [ok |-> TRUE,
          fs |-> [q \in {r \in DOMAIN f : ~IsPrefix(loc, r)} |->
                    IF q = Parent(loc) THEN DirNode(t) ELSE f[q]]]
    ELSE [ok |-> FALSE, fs |-> f]

-----------------------------------------------------------------------------
(* Values *)

None == <<>>
Some(x) == <<x>>

\* zenoh Encoding: Exact(prefix) or WithSuffix(prefix, suffix)
Exact(p) == <<"Exact", p>>
WithSuffix(p, x) == <<"WithSuffix", p, x>>
prefix(e) == e[2]
suffix(e) == IF e[1] = "Exact" THEN "" ELSE e[3]
EMPTY == Exact("empty")
APP_OCTET_STREAM == Exact("application/octet-stream")
TEXT_PLAIN == Exact("text/plain")

\* zenoh Timestamp: the time, then the id of its source
Timestamp(time, id) == [time |-> time, id |-> id]
\* the order of timestamps: the time first, then the id
TsLess(t1, t2) == t1.time < t2.time \/ (t1.time = t2.time /\ t1.id < t2.id)

-----------------------------------------------------------------------------
(* DataInfoMgr (data_info_mgt.rs) *)

\* in seconds
GC_PERIOD == 30
MIN_DELAY_BEFORE_REMOVAL == 5

\* the record written for a key: the timestamp first, then the encoding's
\* prefix and suffix
put_data_info(d, file, encoding, timestamp) ==
    [q \in DOMAIN d \cup {file} |->
        IF q = file
        THEN <<timestamp.time, timestamp.id, prefix(encoding), suffix(encoding)>>
        ELSE d[q]]

decode_timestamp_from_value(val) == Timestamp(val[1], val[2])

decode_encoding_timestamp_from_value(val) ==
    [encoding |-> IF val[4] = "" THEN Exact(val[3]) ELSE WithSuffix(val[3], val[4]),
     timestamp |-> Timestamp(val[1], val[2])]

DataInfo_get_encoding_and_timestamp(d, file) ==
    IF file \in DOMAIN d THEN Some(decode_encoding_timestamp_from_value(d[file]))
    ELSE None

DataInfo_get_timestamp(d, file) ==
    IF file \in DOMAIN d THEN Some(decode_timestamp_from_value(d[file])) ELSE None

-----------------------------------------------------------------------------
(* FilesMgr (files_mgt.rs) *)

\* the id of the timestamps made from a file's modification time
FallbackId == 0

\* mime_guess::from_path(..).first_or_octet_stream(): by the file extension
mime_guess(file) ==
    IF file # <<>> /\ file[Len(file)][Len(file[Len(file)])] = ".txt"
    THEN TEXT_PLAIN ELSE APP_OCTET_STREAM

\* get_timestamp_from_metadata taking the current time (the last fallback of
\* line 392) instead of the file's modification time
get_timestamp_from_metadata_Now(f, file) ==
    Timestamp(now, FallbackId)

get_timestamp_from_metadata(f, file) ==
    Timestamp(f[Stat(f, file)].mtime, FallbackId)

\* Check if a Path contains a segment which is a symbolic link
RECURSIVE ParentIsSymlink(_, _)
ParentIsSymlink(f, current) ==
    IF current = <<>> THEN FALSE
    ELSE LET parent == Parent(current) IN
         IF parent = PathBufFrom(base_dir) THEN FALSE
         ELSE IF is_symlink(f, parent) THEN TRUE
         ELSE ParentIsSymlink(f, parent)

\* contains_symlink looking at the path only, not at its parents
contains_symlink_PathOnly(f, path) ==
    is_symlink(f, path)

contains_symlink(f, path) ==
    IF is_symlink(f, path) THEN TRUE ELSE ParentIsSymlink(f, path)

\* the encoding and timestamp of an existing file: from the data-info, else
\* guessed from the name and the file's time
get_encoding_and_timestamp(f, d, file) ==
    IF DataInfo_get_encoding_and_timestamp(d, file) # None
    THEN DataInfo_get_encoding_and_timestamp(d, file)[1]
    ELSE [encoding |-> IF keep_mime THEN mime_guess(file) ELSE APP_OCTET_STREAM,
          timestamp |-> get_timestamp_from_metadata(f, file)]

perform_read(f, d, file) ==
    IF exists(f, file) /\ is_file(f, file)
       /\ (follow_links \/ ~contains_symlink(f, file))
    THEN LET et == get_encoding_and_timestamp(f, d, file) IN
         Some([payload |-> f[Stat(f, file)].content,
               encoding |-> et.encoding,
               timestamp |-> et.timestamp])
    ELSE None

\* perform_read_from_conflict reading the file's own path again
perform_read_from_conflict_SamePath(f, d, file) ==
    perform_read(f, d, file)

perform_read_from_conflict(f, d, file) ==
    perform_read(f, d, get_conflict_file(file))

read_file(f, d, file) ==
    IF perform_read(f, d, file) # None THEN perform_read(f, d, file)
    ELSE perform_read_from_conflict(f, d, file)

\* the timestamp of a key: from the data-info, else from the file's time
get_timestamp(f, d, file) ==
    IF DataInfo_get_timestamp(d, file) # None THEN DataInfo_get_timestamp(d, file)
    ELSE IF exists(f, file) THEN Some(get_timestamp_from_metadata(f, file))
    ELSE None

\* write_file, lines 114-150: the ancestor a of the target is a file; its
\* content and data-info go to the conflict file and a is removed
ResolveConflict(st, a) ==
    IF ~st.ok \/ ~(exists(st.fs, a) /\ is_file(st.fs, a)) THEN st
    ELSE LET conflict_file == get_conflict_file(a)
             cf == FileCreate(st.fs, conflict_file, now)
         IN  IF ~cf.ok THEN [st EXCEPT !.ok = FALSE]
             ELSE LET conflict_value == perform_read(cf.fs, st.db, a)
                      conflict_content ==
                          IF conflict_value = None THEN 0
                          ELSE conflict_value[1].payload
                      written == write_all(cf.fs, conflict_file, conflict_content, now)
                      info == get_encoding_and_timestamp(written, st.db, a)
                      saved == put_data_info(st.db, conflict_file,
                                             info.encoding, info.timestamp)
                      rm == remove_file(written, a, now)
                  IN  [ok |-> rm.ok, fs |-> rm.fs, db |-> saved]

\* the loop over the ancestors of the target's parent, from the root downwards
RECURSIVE ResolveConflicts(_, _, _)
ResolveConflicts(st, parent, i) ==
    IF i > Len(parent) THEN st
    ELSE ResolveConflicts(ResolveConflict(st, SubSeq(parent, 1, i)), parent, i + 1)

\* write_file, lines 166-182, saving the data-info also when File::create or
\* write_all failed
write_file_create_SaveAnyway(cleared, f, target, content, encoding, timestamp, written) ==
    LET cr == FileCreate(f, target, now) IN
    IF ~cr.ok \/ ~written
    THEN [ok |-> FALSE, fs |-> IF cr.ok THEN cr.fs ELSE f,
          db |-> put_data_info(cleared.db, target, encoding, timestamp)]
    ELSE [ok |-> TRUE,
          fs |-> write_all(cr.fs, target, content, now),
          db |-> put_data_info(cleared.db, target, encoding, timestamp)]

\* write_file, lines 166-182: File::create of the target, write_all and
\* put_data_info.  written tells whether write_all succeeds (it fails when the
\* device is full): File::create has then left the target empty.
write_file_create(cleared, f, target, content, encoding, timestamp, written) ==
    LET cr == FileCreate(f, target, now) IN
    IF ~cr.ok THEN [ok |-> FALSE, fs |-> f, db |-> cleared.db]
    ELSE IF ~written THEN [ok |-> FALSE, fs |-> cr.fs, db |-> cleared.db]
    ELSE [ok |-> TRUE,
          fs |-> write_all(cr.fs, target, content, now),
          db |-> put_data_info(cleared.db, target, encoding, timestamp)]

\* write_file, lines 158-164: the target is the conflict file when the path
\* is a directory
write_file_target(cleared, dirs, file, content, encoding, timestamp, written) ==
    IF ~dirs.ok THEN [cleared EXCEPT !.ok = FALSE, !.fs = dirs.fs]
    ELSE write_file_create(cleared, dirs.fs,
                           IF exists(dirs.fs, file) /\ is_dir(dirs.fs, file)
                           THEN get_conflict_file(file) ELSE file,
                           content, encoding, timestamp, written)

\* write_file, lines 152-156: dir_builder.create(parent)
write_file_dirs(cleared, file, content, encoding, timestamp, written) ==
    IF ~cleared.ok THEN cleared
    ELSE write_file_target(cleared, create_dir_all(cleared.fs, Parent(file), now),
                           file, content, encoding, timestamp, written)

\* FilesMgr::write_file, with the outcome of its write_all
write_file_with(f, d, file, content, encoding, timestamp, written) ==
    write_file_dirs(ResolveConflicts([ok |-> TRUE, fs |-> f, db |-> d], Parent(file), 0),
                    file, content, encoding, timestamp, written)

write_file(f, d, file, content, encoding, timestamp) ==
    write_file_with(f, d, file, content, encoding, timestamp, TRUE)

\* write_file when its write_all fails
write_file_full(f, d, file, content, encoding, timestamp) ==
    write_file_with(f, d, file, content, encoding, timestamp, FALSE)

\* delete_file, lines 215-223: remove the parent directories as long as they
\* are empty, up to the base directory
RECURSIVE RemoveEmptyParents(_, _)
RemoveEmptyParents(f, file) ==
    IF file = <<>> THEN f
    ELSE LET parent == Parent(file) IN
         IF parent # PathBufFrom(base_dir) /\ remove_dir(f, parent, now).ok
         THEN RemoveEmptyParents(remove_dir(f, parent, now).fs, parent)
         ELSE f

\* delete_file returning without the put_data_info of lines 226-229
delete_file_NoDataInfo(f, d, zfile, timestamp) ==
    LET file == IF exists(f, zfile) /\ is_file(f, zfile) THEN zfile
                ELSE get_conflict_file(zfile)
    IN  IF exists(f, file)
        THEN LET rm == remove_file(f, file, now) IN
             IF ~rm.ok THEN [ok |-> FALSE, fs |-> f, db |-> d]
             ELSE [ok |-> TRUE, fs |-> RemoveEmptyParents(rm.fs, file), db |-> d]
        ELSE [ok |-> TRUE, fs |-> f, db |-> d]

delete_file(f, d, zfile, timestamp) ==
    LET file == IF exists(f, zfile) /\ is_file(f, zfile) THEN zfile
                ELSE get_conflict_file(zfile)
    IN  IF exists(f, file)
        THEN LET rm == remove_file(f, file, now) IN
             IF ~rm.ok THEN [ok |-> FALSE, fs |-> f, db |-> d]
             ELSE [ok |-> TRUE,
                   fs |-> RemoveEmptyParents(rm.fs, file),
                   db |-> put_data_info(d, file, EMPTY, timestamp)]
        ELSE [ok |-> TRUE, fs |-> f, db |-> put_data_info(d, file, EMPTY, timestamp)]

fspath_to_zpath(fspath) == fspath

\* the key expressions given to matching_files
AllExpr == <<"**">>
BelowAExpr == <<"a", SEP, "*">>
SubtreeAExpr == <<"a", SEP, "**">>
IsStar(tok) == tok = "*" \/ tok = "**"

\* zenoh's intersection of a key with a key expression, chunk by chunk: "*"
\* stands for one chunk and "**" for any number of chunks; a chunk that
\* starts with "@" is matched by no wildcard
RECURSIVE ChunksIntersect(_, _, _, _)
ChunksIntersect(k, i, e, j) ==
    IF j > Len(e) THEN i > Len(k)
    ELSE IF e[j] = <<"**">>
         THEN \/ ChunksIntersect(k, i, e, j + 1)
              \/ /\ i <= Len(k) /\ k[i] # ROOT_KEY
                 /\ ChunksIntersect(k, i + 1, e, j)
    ELSE /\ i <= Len(k)
         /\ (e[j] = <<"*">> /\ k[i] # ROOT_KEY) \/ e[j] = k[i]
         /\ ChunksIntersect(k, i + 1, e, j + 1)

intersect(zpath, zpath_expr) ==
    ChunksIntersect(PathBufFrom(zpath), 1, PathBufFrom(zpath_expr), 1)

\* Path::join on strings: a separator is added unless the string ends by one
JoinStr(str, name) ==
    IF str # <<>> /\ str[Len(str)] = SEP THEN str \o name ELSE str \o <<SEP>> \o name

\* WalkDir::new(str).follow_links(fl): the strings of the entries that are not
\* directories, found from the entry str at the given depth.  The content of
\* a directory named DB_FILENAME is skipped (FilesIterator::next); a link is
\* an entry of its own unless links are followed.
\* WalkDir without the skip of the content of the DB_FILENAME directory
RECURSIVE WalkDir_NoSkip(_, _, _, _)
WalkDir_NoSkip(f, str, fl, depth) ==
    LET path == PathBufFrom(str)
        loc == IF fl \/ depth = 0 THEN Stat(f, path) ELSE LStat(f, path)
    IN  IF ~Exists(f, loc) THEN {}
        ELSE IF IsDirAt(f, loc)
        THEN UNION {WalkDir_NoSkip(f, JoinStr(str, q[Len(q)]), fl, depth + 1) :
                       q \in Children(f, loc)}
        ELSE {str}

RECURSIVE WalkDir(_, _, _, _)
WalkDir(f, str, fl, depth) ==
    LET path == PathBufFrom(str)
        loc == IF fl \/ depth = 0 THEN Stat(f, path) ELSE LStat(f, path)
    IN  IF ~Exists(f, loc) THEN {}
        ELSE IF IsDirAt(f, loc)
        THEN IF path # <<>> /\ path[Len(path)] = DB_FILENAME THEN {}
             ELSE UNION {WalkDir(f, JoinStr(str, q[Len(q)]), fl, depth + 1) :
                            q \in Children(f, loc)}
        ELSE {str}

\* matching_files panics on an expression without '*' (line 301)
matching_files_panics(zpath_expr) ==
    \A i \in 1 .. Len(zpath_expr) : ~IsStar(zpath_expr[i])

\* FilesIterator::next on an entry that is not a directory: its key
EntryZPath(str) ==
    LET coarse_zpath == fspath_to_zpath(SubSeq(str, Len(base_dir) + 1, Len(str)))
    IN  IF coarse_zpath # <<>> /\ coarse_zpath[Len(coarse_zpath)] = CONFLICT_SUFFIX
        THEN SubSeq(coarse_zpath, 1, Len(coarse_zpath) - 1)
        ELSE coarse_zpath

\* FilesMgr::matching_files, with the FilesIterator run to its end: the
\* ZFiles it yields
matching_files(f, zpath_expr) ==
    LET star_idx == CHOOSE i \in 1 .. Len(zpath_expr) :
                        /\ IsStar(zpath_expr[i])
                        /\ \A j \in 1 .. i - 1 : ~IsStar(zpath_expr[j])
        seps == {i \in 1 .. star_idx - 1 : zpath_expr[i] = SEP}
        segment == IF seps = {} THEN <<>>
                   ELSE SubSeq(zpath_expr, 1,
                               (CHOOSE i \in seps : \A j \in seps : j <= i) - 1)
        search_dir == base_dir \o zpath_to_fspath(segment)
    IN  IF ~follow_links /\ contains_symlink(f, to_fspath(segment)) THEN {}
        ELSE {[zpath |-> EntryZPath(str), fspath |-> PathBufFrom(str)] :
                str \in {e \in WalkDir(f, search_dir, follow_links, 0) :
                            intersect(EntryZPath(e), zpath_expr)}}

-----------------------------------------------------------------------------
(* FileSystemVolume and FileSystemStorage (lib.rs) *)

\* FileSystemVolume.root, the directory all storages of the volume live in
VolumeRoot == <<SEP>>

\* the keys a caller can give: None, or a key expression
NoKey == <<>>
KeyA == <<"a">>
KeyAB == <<"a", SEP, "b">>
KeyABC == <<"a", SEP, "b", SEP, "c">>
KeyAZ == <<"a", CONFLICT_SUFFIX>>
KeyAZB == <<"a", CONFLICT_SUFFIX, SEP, "b">>

Keys == {KeyA, KeyAB}

Payloads == 1 .. MaxContent
\* the values callers put: payload b comes with the encoding EncodingOf(b)
EncodingOf(b) == IF b % 2 = 1 THEN TEXT_PLAIN ELSE WithSuffix("application/custom", "x")
Values == {[payload |-> b, encoding |-> EncodingOf(b)] : b \in Payloads}
\* the timestamps callers give: OlderTs < NewerTs by the time, although the
\* id of OlderTs is the greater one
OlderTs == Timestamp(1, 2)
NewerTs == Timestamp(2, 1)
Timestamps == {OlderTs, NewerTs}

\* FilesMgr::to_zfile
to_zfile(zpath) == [zpath |-> zpath, fspath |-> to_fspath(zpath)]

ZFileOf(key) == to_zfile(IF key = NoKey THEN ROOT_KEY ELSE key)

\* the last call of the storage: its result, what it applied (the value and
\* timestamp of a put or delete that was carried out) and what a get returned
Call(op, key, res, value, timestamp, data) ==
    [op |-> op, key |-> key, res |-> res, value |-> value,
     timestamp |-> timestamp, data |-> data]
NoCall == Call("none", NoKey, "", None, None, None)

\* Volume::create_storage, then FilesMgr::new and DataInfoMgr::new: the base
\* directory and the data-info database in it are created when missing
CreateStorage(dir, ro, fl, km, oc) ==
    /\ ~open
    /\ LET base == VolumeRoot \o dir
           base_dir_path == PathBufFrom(base)
           made == IF ~exists(fs, base_dir_path)
                   THEN create_dir_all(fs, base_dir_path, now)
                   ELSE [ok |-> is_dir(fs, base_dir_path), fs |-> fs]
           backup_file == Append(base_dir_path, DB_FILENAME)
           dbdir == create_dir_all(made.fs, backup_file, now)
           dbfile == FileCreate(dbdir.fs, Append(backup_file, <<"CURRENT">>), now)
       IN  /\ made.ok /\ dbdir.ok /\ dbfile.ok
           /\ fs' = IF exists(fs, Append(backup_file, <<"CURRENT">>))
                    THEN fs ELSE dbfile.fs
           /\ db' = IF exists(fs, Append(backup_file, <<"CURRENT">>))
                    THEN db ELSE <<>>
           /\ base_dir' = base
    /\ open' = TRUE
    /\ read_only' = ro
    /\ follow_links' = fl
    /\ keep_mime' = km
    /\ on_closure' = oc
    /\ last' = NoCall
    /\ UNCHANGED <<now, lock, pc>>

\* impl Drop for FilesMgr
DropStorage ==
    /\ open
    /\ IF on_closure = "delete_all"
       THEN /\ db' = <<>>
            /\ fs' = remove_dir_all(
                        remove_dir_all(fs, Append(PathBufFrom(base_dir), DB_FILENAME),
                                       now).fs,
                        PathBufFrom(base_dir), now).fs
       ELSE UNCHANGED <<fs, db>>
    /\ open' = FALSE
    \* a failure of remove_dir_all is logged by warn!
    /\ last' = Call("drop", NoKey,
                     IF on_closure = "delete_all"
                        /\ ~remove_dir_all(fs, PathBufFrom(base_dir), now).ok
                     THEN "warn" ELSE "Ok", None, None, None)
    \* the fields of the dropped storage are gone: they read as the defaults
    /\ read_only' = FALSE
    /\ follow_links' = FALSE
    /\ keep_mime' = TRUE
    /\ on_closure' = "do_nothing"
    /\ UNCHANGED <<base_dir, now, lock, pc>>

\* Storage::put without the test of read_only
Put_NoReadOnlyTest(key, value, timestamp) ==
    /\ open
    /\ \E w \in {write_file(fs, db, to_zfile(IF key = NoKey THEN ROOT_KEY ELSE key).fspath,
                             value.payload, value.encoding, timestamp)} :
            /\ fs' = w.fs
            /\ db' = w.db
            /\ last' = IF w.ok
                       THEN Call("put", key, "Inserted", Some(value),
                                 Some(timestamp), None)
                       ELSE Call("put", key, "Err", None, None, None)
    /\ UNCHANGED <<open, config, now, lock, pc>>

\* Storage::put
Put(key, value, timestamp) ==
    /\ open
    /\ IF ~read_only
       THEN \E w \in {write_file(fs, db, ZFileOf(key).fspath, value.payload,
                                value.encoding, timestamp)} :
                /\ fs' = w.fs
                /\ db' = w.db
                /\ last' = IF w.ok
                           THEN Call("put", key, "Inserted", Some(value),
                                     Some(timestamp), None)
                           ELSE Call("put", key, "Err", None, None, None)
       ELSE /\ UNCHANGED <<fs, db>>
            /\ last' = Call("put", key, "Err: read-only", None, None, None)
    /\ UNCHANGED <<open, config, now, lock, pc>>

\* Storage::delete
\* put when the write_all of write_file fails
PutDiskFull(key, value, timestamp) ==
    /\ open
    /\ IF ~read_only
       THEN \E w \in {write_file_full(fs, db, ZFileOf(key).fspath, value.payload,
                                     value.encoding, timestamp)} :
                /\ fs' = w.fs
                /\ db' = w.db
                /\ last' = Call("put", key, "Err", None, None, None)
       ELSE /\ UNCHANGED <<fs, db>>
            /\ last' = Call("put", key, "Err: read-only", None, None, None)
    /\ UNCHANGED <<open, config, now, lock, pc>>

Delete(key, timestamp) ==
    /\ open
    /\ IF ~read_only
       THEN \E r \in {delete_file(fs, db, ZFileOf(key).fspath, timestamp)} :
                /\ fs' = r.fs
                /\ db' = r.db
                /\ last' = IF r.ok
                           THEN Call("delete", key, "Deleted", None,
                                     Some(timestamp), None)
                           ELSE Call("delete", key, "Err", None, None, None)
       ELSE /\ UNCHANGED <<fs, db>>
            /\ last' = Call("delete", key, "Err: read-only", None, None, None)
    /\ UNCHANGED <<open, config, now, lock, pc>>

\* Storage::get
Get(key) ==
    /\ open
    /\ last' = Call("get", key, "Ok", None, None,
                     read_file(fs, db, ZFileOf(key).fspath))
    /\ UNCHANGED <<fs, db, open, config, now, lock, pc>>

\* FilesMgr::matching_files, called with a key expression
\* get_trimmed_keyexpr (called at lib.rs:413, defined in no source file): the
\* key without the reserved suffix at its end, as listing has to strip it
get_trimmed_keyexpr(zpath) ==
    IF zpath # <<>> /\ zpath[Len(zpath)] = CONFLICT_SUFFIX
    THEN SubSeq(zpath, 1, Len(zpath) - 1) ELSE zpath

\* the elements get_all_entries pushes: the root entry when it can be read,
\* and one element for each file matching_files("**") yields whose trimmed key
\* can be read.  An element is (key, timestamp); file, the file the element
\* comes from, keeps two equal elements apart.
\* get_all_entries without the root entry of lines 398-404
all_entries_NoRootEntry(f, d) ==
    {[key |-> Some(zfile.zpath),
      timestamp |-> read_file(f, d, to_zfile(get_trimmed_keyexpr(zfile.zpath)).fspath)[1].timestamp,
      file |-> zfile.fspath] :
        zfile \in {z \in matching_files(f, AllExpr) :
                     /\ z.zpath # ROOT_KEY
                     /\ read_file(f, d, to_zfile(get_trimmed_keyexpr(z.zpath)).fspath) # None}}

all_entries(f, d) ==
    {[key |-> None, timestamp |-> read_file(f, d, to_zfile(ROOT_KEY).fspath)[1].timestamp,
      file |-> to_zfile(ROOT_KEY).fspath] :
        x \in {y \in {ROOT_KEY} : read_file(f, d, to_zfile(y).fspath) # None}}
    \cup
    {[key |-> Some(zfile.zpath),
      timestamp |-> read_file(f, d, to_zfile(get_trimmed_keyexpr(zfile.zpath)).fspath)[1].timestamp,
      file |-> zfile.fspath] :
        zfile \in {z \in matching_files(f, AllExpr) :
                     /\ z.zpath # ROOT_KEY
                     /\ read_file(f, d, to_zfile(get_trimmed_keyexpr(z.zpath)).fspath) # None}}

\* Storage::get_all_entries
GetAllEntries ==
    /\ open
    /\ last' = Call("get_all_entries", NoKey, "Ok", None, None, all_entries(fs, db))
    /\ UNCHANGED <<fs, db, open, config, now, lock, pc>>

\* FilesMgr::get_timestamp on the file of a key (no operation of the storage
\* calls it; it is applied here as a caller of FilesMgr would)
GetTimestamp(key) ==
    /\ open
    /\ last' = Call("get_timestamp", key, "Ok", None, None,
                     get_timestamp(fs, db, ZFileOf(key).fspath))
    /\ UNCHANGED <<fs, db, open, config, now, lock, pc>>

Matching(zpath_expr) ==
    /\ open
    /\ last' = IF matching_files_panics(zpath_expr)
               THEN Call("matching", zpath_expr, "panic", None, None, None)
               ELSE Call("matching", zpath_expr, "Ok", None, None,
                         {z.zpath : z \in matching_files(fs, zpath_expr)})
    /\ UNCHANGED <<fs, db, open, config, now, lock, pc>>

\* outside the storage: a symbolic link to target is made in the base
\* directory under the given name
MakeSymlink(name, target) ==
    LET path == Append(PathBufFrom(base_dir), name)
        loc == LStat(fs, path)
    IN  /\ open
        /\ loc # NoPath /\ ~Exists(fs, loc) /\ IsDirAt(fs, Parent(loc))
        /\ fs' = Link(fs, loc, LinkNode(target), now)
        /\ last' = NoCall
        /\ UNCHANGED <<db, open, config, now, lock, pc>>

\* outside the storage: a regular file is written in the base directory
\* under the given name, without any put
PlaceFile(name, content) ==
    LET path == Append(PathBufFrom(base_dir), name)
        made == FileCreate(fs, path, now)
    IN  /\ open
        /\ ~is_symlink(fs, path)
        /\ made.ok
        /\ fs' = write_all(made.fs, path, content, now)
        /\ last' = NoCall
        /\ UNCHANGED <<db, open, config, now, lock, pc>>

\* outside the storage: a file of the base directory is removed
\* the base directory is removed by another program
RemoveBaseOutside ==
    /\ open
    /\ exists(fs, PathBufFrom(base_dir))
    /\ fs' = remove_dir_all(fs, PathBufFrom(base_dir), now).fs
    /\ last' = NoCall
    /\ UNCHANGED <<db, open, config, now, lock, pc>>

RemoveOutside(path) ==
    LET gone == remove_file(fs, path, now)
    IN  /\ open
        /\ is_file(fs, path) /\ ~is_symlink(fs, path)
        /\ gone.ok
        /\ fs' = gone.fs
        /\ last' = NoCall
        /\ UNCHANGED <<db, open, config, now, lock, pc>>

\* rename_key without the delete of line 112
RenameKey_NoDelete(from, to) ==
    /\ open
    /\ IF from \in DOMAIN db
       THEN /\ db' = [q \in DOMAIN db \cup {to} |-> IF q = to THEN db[from] ELSE db[q]]
            /\ last' = Call("rename_key", from, "Ok", None, None, to)
       ELSE /\ db' = db
            /\ last' = Call("rename_key", from, "Err", None, None, to)
    /\ UNCHANGED <<fs, open, config, now, lock, pc>>

\* DataInfoMgr::rename_key, from its start to its end (the lock is held from
\* the get to the delete): put(to) then delete(from)
RenameKey(from, to) ==
    /\ open
    /\ IF from \in DOMAIN db
       THEN LET copied == [q \in DOMAIN db \cup {to} |->
                              IF q = to THEN db[from] ELSE db[q]]
            IN  /\ db' = [q \in DOMAIN copied \ {from} |-> copied[q]]
                /\ last' = Call("rename_key", from, "Ok", None, None, to)
       ELSE /\ db' = db
            /\ last' = Call("rename_key", from, "Err", None, None, to)
    /\ UNCHANGED <<fs, open, config, now, lock, pc>>

\* the records a sweep that starts at the time t deletes: those whose path
\* does not exist and whose time is before the limit
Obsolete(f, d, t) ==
    LET time_limit == t - MIN_DELAY_BEFORE_REMOVAL
    IN  {path \in DOMAIN d : ~exists(f, path) /\ d[path][1] < time_limit}

\* a sweep that deletes whatever record has no file, young or old
GarbageCollection_NoDelay ==
    LET gone == {path \in DOMAIN db : ~exists(fs, path)}
    IN  /\ open
        /\ db' = [path \in DOMAIN db \ gone |-> db[path]]
        /\ last' = Call("gc", NoKey, "Ok", None, None, gone)
        /\ UNCHANGED <<fs, open, config, now, lock, pc>>

\* GarbageCollectionEvent::run, from its start to its end
GarbageCollection ==
    LET gone == Obsolete(fs, db, now)
    IN  /\ open
        /\ db' = [path \in DOMAIN db \ gone |-> db[path]]
        /\ last' = Call("gc", NoKey, "Ok", None, None, gone)
        /\ UNCHANGED <<fs, open, config, now, lock, pc>>

\* the system clock advances by d seconds
Tick(d) ==
    /\ now + d <= MaxNow
    /\ now' = now + d
    /\ last' = NoCall
    /\ UNCHANGED <<fs, db, open, config, lock, pc>>

-----------------------------------------------------------------------------
(* DataInfoMgr step by step: the functions of data_info_mgt.rs run by      *)
(* concurrent tasks, each one waiting for the Mutex of the database before *)
(* it reads or writes it                                                    *)

GCTask == "gc"
Callers == {"c1", "c2"}
Tasks == Callers \cup {GCTask}

\* a task outside any function of DataInfoMgr
Idle == [op |-> "none", stage |-> "idle", file |-> <<>>, arg |-> <<>>, pending |-> {}]
Running(op, stage, file, arg, pending) ==
    [op |-> op, stage |-> stage, file |-> file, arg |-> arg, pending |-> pending]

\* the stages at which a task holds the MutexGuard
Holding == {"held", "copied", "deleting"}
\* the functions that iterate over the database
Iterating == {"gc", "get_deleted_entries"}

\* the order of the keys in the database is the order of their bytes: here
\* the first byte of each piece of the key, and the second one for the
\* pieces that start with a dot
TokenByte(tok) ==
    CASE tok = "*" -> 42 * 256
      [] tok = ".." -> 46 * 256 + 46
      [] tok = ".txt" -> 46 * 256 + 116
      [] tok = ".zenoh_datainfo" -> 46 * 256 + 122
      [] tok = SEP -> 47 * 256
      [] tok = "@root" -> 64 * 256
      [] tok = "CURRENT" -> 67 * 256
      [] tok = CONFLICT_SUFFIX -> 95 * 256
      [] tok = "a" -> 97 * 256
      [] tok = "b" -> 98 * 256
      [] tok = "c" -> 99 * 256
      [] tok = "f" -> 102 * 256
      [] tok = "l" -> 108 * 256
      [] tok = "s" -> 115 * 256
      [] tok = "x" -> 120 * 256
      [] OTHER -> 0

\* file.to_string_lossy(): the string of a path
RECURSIVE to_string_lossy(_)
to_string_lossy(path) ==
    IF path = <<>> THEN <<>>
    ELSE to_string_lossy(Parent(path)) \o <<SEP>> \o path[Len(path)]

RECURSIVE BytesLess(_, _, _)
BytesLess(s1, s2, i) ==
    IF i > Len(s1) THEN i <= Len(s2)
    ELSE IF i > Len(s2) THEN FALSE
    ELSE IF s1[i] = s2[i] THEN BytesLess(s1, s2, i + 1)
    ELSE TokenByte(s1[i]) < TokenByte(s2[i])

\* the record an iterator yields next, among those it has not yet yielded
IteratorNext(pending) ==
    CHOOSE key \in pending :
        \A other \in pending \ {key} :
            BytesLess(to_string_lossy(key), to_string_lossy(other), 1)

\* a task enters a function of DataInfoMgr and reaches self.db.lock().await
LockCall(t, op, file, arg) ==
    /\ open
    /\ pc[t] = Idle
    /\ \A u \in Tasks : pc[u].op # "close"
    /\ pc' = [pc EXCEPT ![t] = Running(op, "lock", file, arg, {})]
    /\ UNCHANGED <<fs, db, open, config, now, last, lock>>

\* lock() that returns although another task holds the guard
Acquire_NoWait(t) ==
    /\ pc[t].stage = "lock"
    /\ lock' = t
    /\ pc' = [pc EXCEPT ![t].stage = "held",
                        ![t].pending = IF pc[t].op \in Iterating THEN DOMAIN db ELSE {}]
    /\ UNCHANGED <<fs, db, open, config, now, last>>

\* self.db.lock().await returns: the Mutex was free.  A function that
\* iterates gets its iterator over the records of this moment.
Acquire(t) ==
    /\ pc[t].stage = "lock"
    /\ lock = "free"
    /\ lock' = t
    /\ pc' = [pc EXCEPT ![t].stage = "held",
                        ![t].pending = IF pc[t].op \in Iterating THEN DOMAIN db ELSE {}]
    /\ UNCHANGED <<fs, db, open, config, now, last>>

\* the MutexGuard is dropped at the end of the function
Release(t) ==
    /\ lock' = IF lock = t THEN "free" ELSE lock
    /\ pc' = [pc EXCEPT ![t] = Idle]

\* DataInfoMgr::put_data_info, once it has the lock
put_data_info_locked(t) ==
    /\ pc[t].op = "put_data_info" /\ pc[t].stage = "held"
    /\ db' = put_data_info(db, pc[t].file, pc[t].arg.encoding, pc[t].arg.timestamp)
    /\ last' = Call("put_data_info", pc[t].file, "Ok", None, Some(pc[t].arg.timestamp), None)
    /\ Release(t)
    /\ UNCHANGED <<fs, open, config, now>>

\* DataInfoMgr::get_encoding_and_timestamp and get_timestamp, once they have
\* the lock
get_locked(t) ==
    /\ pc[t].op \in {"get_encoding_and_timestamp", "get_timestamp"}
    /\ pc[t].stage = "held"
    /\ last' = Call(pc[t].op, pc[t].file, "Ok", None, None,
                    IF pc[t].op = "get_timestamp"
                    THEN DataInfo_get_timestamp(db, pc[t].file)
                    ELSE DataInfo_get_encoding_and_timestamp(db, pc[t].file))
    /\ Release(t)
    /\ UNCHANGED <<fs, db, open, config, now>>

\* DataInfoMgr::rename_key, once it has the lock: get_pinned(from), put(to)
rename_key_copy(t) ==
    /\ pc[t].op = "rename_key" /\ pc[t].stage = "held"
    /\ IF pc[t].file \in DOMAIN db
       THEN /\ db' = [q \in DOMAIN db \cup {pc[t].arg} |->
                        IF q = pc[t].arg THEN db[pc[t].file] ELSE db[q]]
            /\ pc' = [pc EXCEPT ![t].stage = "copied"]
            /\ UNCHANGED <<last, lock>>
       ELSE /\ last' = Call("rename_key", pc[t].file, "Err", None, None, None)
            /\ Release(t)
            /\ UNCHANGED db
    /\ UNCHANGED <<fs, open, config, now>>

\* DataInfoMgr::rename_key: delete(from)
rename_key_delete(t) ==
    /\ pc[t].op = "rename_key" /\ pc[t].stage = "copied"
    /\ db' = [q \in DOMAIN db \ {pc[t].file} |-> db[q]]
    /\ last' = Call("rename_key", pc[t].file, "Ok", None, None, None)
    /\ Release(t)
    /\ UNCHANGED <<fs, open, config, now>>

\* DataInfoMgr::get_deleted_entries: one turn of its loop; arg collects the
\* entries whose path does not exist
get_deleted_entries_next(t) ==
    /\ pc[t].op = "get_deleted_entries" /\ pc[t].stage = "held"
    /\ pc[t].pending # {}
    /\ \E key \in {IteratorNext(pc[t].pending)} :
         pc' = [pc EXCEPT ![t].pending = pc[t].pending \ {key},
                          ![t].arg = IF ~exists(fs, key) /\ key \in DOMAIN db
                                     THEN Append(pc[t].arg, <<key, decode_timestamp_from_value(db[key])>>)
                                     ELSE pc[t].arg]
    /\ UNCHANGED <<fs, db, open, config, now, last, lock>>

\* DataInfoMgr::get_deleted_entries: the end of the loop
get_deleted_entries_return(t) ==
    /\ pc[t].op = "get_deleted_entries" /\ pc[t].stage = "held"
    /\ pc[t].pending = {}
    /\ last' = Call("get_deleted_entries", NoKey, "Ok", None, None, pc[t].arg)
    /\ Release(t)
    /\ UNCHANGED <<fs, db, open, config, now>>

\* impl Drop for FilesMgr with OnClosure::DeleteAll starts: no call is
\* running on the storage that is dropped
\* a drop that closes the DataInfoMgr whatever on_closure is
DropCall_AnyPolicy(t) ==
    /\ \A u \in Callers : pc[u] = Idle
    /\ LockCall(t, "close", <<>>, <<>>)

\* impl Drop for FilesMgr with OnClosure::DeleteAll, up to the lock().await of
\* close; drop has the FilesMgr for itself (&mut self)
DropCall(t) ==
    /\ on_closure = "delete_all"
    /\ \A u \in Callers : pc[u] = Idle
    /\ LockCall(t, "close", <<>>, <<>>)

\* DataInfoMgr::close, once it has the lock: flush and DB::destroy
close_locked(t) ==
    /\ pc[t].op = "close" /\ pc[t].stage = "held"
    /\ db' = <<>>
    /\ fs' = remove_dir_all(fs, Append(PathBufFrom(base_dir), DB_FILENAME), now).fs
    /\ lock' = "free"
    /\ pc' = [pc EXCEPT ![t].stage = "closed"]
    /\ UNCHANGED <<open, config, now, last>>

\* impl Drop for FilesMgr, after close: remove_dir_all(base_dir)
DropEnd(t) ==
    /\ pc[t].op = "close" /\ pc[t].stage = "closed"
    /\ fs' = remove_dir_all(fs, PathBufFrom(base_dir), now).fs
    /\ open' = FALSE
    \* a failure of remove_dir_all is logged by warn!
    /\ last' = Call("drop", NoKey,
                     IF remove_dir_all(fs, PathBufFrom(base_dir), now).ok
                     THEN "Ok" ELSE "warn", None, None, None)
    /\ read_only' = FALSE
    /\ follow_links' = FALSE
    /\ keep_mime' = TRUE
    /\ on_closure' = "do_nothing"
    /\ pc' = [pc EXCEPT ![t] = Idle]
    /\ UNCHANGED <<db, base_dir, now, lock>>

\* the Timer fires the GarbageCollectionEvent: run computes time_limit and
\* reaches self.db.lock().await
GcCall ==
    LockCall(GCTask, "gc", <<>>, now - MIN_DELAY_BEFORE_REMOVAL)

\* a sweep that deletes the old records without looking for their files
GcNext_NoExistsTest ==
    /\ pc[GCTask].op = "gc" /\ pc[GCTask].stage = "held"
    /\ pc[GCTask].pending # {}
    /\ \E key \in {IteratorNext(pc[GCTask].pending)} :
         LET old == key \in DOMAIN db /\ db[key][1] < pc[GCTask].arg
         IN  pc' = [pc EXCEPT ![GCTask].pending = pc[GCTask].pending \ {key},
                              ![GCTask].file = IF old THEN key ELSE <<>>,
                              ![GCTask].stage = IF old THEN "deleting" ELSE "held"]
    /\ UNCHANGED <<fs, db, open, config, now, last, lock>>

\* GarbageCollectionEvent::run, lines 222-228: the loop takes the next record
\* and tests its path and its time
GcNext ==
    /\ pc[GCTask].op = "gc" /\ pc[GCTask].stage = "held"
    /\ pc[GCTask].pending # {}
    /\ \E key \in {IteratorNext(pc[GCTask].pending)} :
         LET old == /\ key \in DOMAIN db
                    /\ ~exists(fs, key)
                    /\ db[key][1] < pc[GCTask].arg
         IN  pc' = [pc EXCEPT ![GCTask].pending = pc[GCTask].pending \ {key},
                              ![GCTask].file = IF old THEN key ELSE <<>>,
                              ![GCTask].stage = IF old THEN "deleting" ELSE "held"]
    /\ UNCHANGED <<fs, db, open, config, now, last, lock>>

\* GarbageCollectionEvent::run, line 230: db.delete(&key)
GcDelete ==
    /\ pc[GCTask].op = "gc" /\ pc[GCTask].stage = "deleting"
    /\ db' = [q \in DOMAIN db \ {pc[GCTask].file} |-> db[q]]
    /\ pc' = [pc EXCEPT ![GCTask].stage = "held", ![GCTask].file = <<>>]
    /\ last' = Call("gc", pc[GCTask].file, "Ok", None, None, {pc[GCTask].file})
    /\ UNCHANGED <<fs, open, config, now, lock>>

\* GarbageCollectionEvent::run: the end of the loop and of the function
GcReturn ==
    /\ pc[GCTask].op = "gc" /\ pc[GCTask].stage = "held"
    /\ pc[GCTask].pending = {}
    /\ Release(GCTask)
    /\ UNCHANGED <<fs, db, open, config, now, last>>

-----------------------------------------------------------------------------
(* FilesMgr step by step: write_file and delete_file run by the task of the *)
(* storage, one step for each change of the file tree that makes a path     *)
(* appear or disappear and one for each access to the data-info.  An access *)
(* to the data-info waits for the Mutex; it is one step, taken when the     *)
(* Mutex is free, since the guard is dropped before the function returns.   *)

StorageTask == "c1"

\* what write_file and delete_file keep between their steps
Locals(key, value, timestamp, i, info, target) ==
    [key |-> key, value |-> value, timestamp |-> timestamp, i |-> i, info |-> info,
     target |-> target]

\* the function returns an error
Fail(t) ==
    /\ last' = Call(pc[t].op, pc[t].arg.key, "Err", None, None, None)
    /\ pc' = [pc EXCEPT ![t] = Idle]

\* write_file, lines 114-116: the first ancestor of the file, from the i-th
\* on, that is a regular file; Len(parent) + 1 when there is none
ConflictFrom(f, parent, i) ==
    LET found == {j \in i .. Len(parent) :
                    exists(f, SubSeq(parent, 1, j)) /\ is_file(f, SubSeq(parent, 1, j))}
    IN  IF found = {} THEN Len(parent) + 1
        ELSE CHOOSE j \in found : \A k \in found : j <= k

\* the loop over the ancestors goes on from the i-th: to the next conflict,
\* or to the creation of the directories
AncestorsFrom(f, running, i) ==
    LET j == ConflictFrom(f, Parent(running.file), i)
    IN  IF j > Len(Parent(running.file))
        THEN [running EXCEPT !.stage = "create_dirs"]
        ELSE [running EXCEPT !.stage = "conflict_create", !.arg.i = j]

\* Storage::put calls write_file
write_file_call(t, key, value, timestamp) ==
    /\ open /\ ~read_only
    /\ pc[t] = Idle
    /\ pc' = [pc EXCEPT ![t] =
                AncestorsFrom(fs, Running("put", "ancestors", ZFileOf(key).fspath,
                                          Locals(key, value, timestamp, 0, None, <<>>),
                                          {}), 0)]
    /\ UNCHANGED <<fs, db, open, config, now, last, lock>>

\* write_file, line 121: File::create(&conflict_file)
conflict_create(t) ==
    /\ pc[t].op = "put" /\ pc[t].stage = "conflict_create"
    /\ LET a == SubSeq(Parent(pc[t].file), 1, pc[t].arg.i)
           cf == FileCreate(fs, get_conflict_file(a), now)
       IN  IF cf.ok
           THEN /\ fs' = cf.fs
                /\ pc' = [pc EXCEPT ![t].stage = "conflict_info"]
                /\ UNCHANGED last
           ELSE Fail(t) /\ UNCHANGED fs
    /\ UNCHANGED <<db, open, config, now, lock>>

\* write_file, lines 126-138: the content of the ancestor is copied and its
\* encoding and timestamp are read
conflict_info(t) ==
    /\ pc[t].op = "put" /\ pc[t].stage = "conflict_info"
    /\ lock = "free"
    /\ LET a == SubSeq(Parent(pc[t].file), 1, pc[t].arg.i)
           conflict_value == perform_read(fs, db, a)
           conflict_content == IF conflict_value = None THEN 0
                               ELSE conflict_value[1].payload
       IN  /\ fs' = write_all(fs, get_conflict_file(a), conflict_content, now)
           /\ pc' = [pc EXCEPT ![t].stage = "conflict_save",
                               ![t].arg.info = Some(get_encoding_and_timestamp(fs, db, a))]
    /\ UNCHANGED <<db, open, config, now, last, lock>>

\* write_file, lines 140-142: put_data_info(conflict_file, ..)
conflict_save(t) ==
    /\ pc[t].op = "put" /\ pc[t].stage = "conflict_save"
    /\ lock = "free"
    /\ LET a == SubSeq(Parent(pc[t].file), 1, pc[t].arg.i)
       IN  db' = put_data_info(db, get_conflict_file(a), pc[t].arg.info[1].encoding,
                               pc[t].arg.info[1].timestamp)
    /\ pc' = [pc EXCEPT ![t].stage = "conflict_remove"]
    /\ UNCHANGED <<fs, open, config, now, last, lock>>

\* write_file, lines 144-148: remove_file(a), and the loop goes on
conflict_remove(t) ==
    /\ pc[t].op = "put" /\ pc[t].stage = "conflict_remove"
    /\ LET a == SubSeq(Parent(pc[t].file), 1, pc[t].arg.i)
           rm == remove_file(fs, a, now)
       IN  IF rm.ok
           THEN /\ fs' = rm.fs
                /\ pc' = [pc EXCEPT ![t] = AncestorsFrom(rm.fs, pc[t], pc[t].arg.i + 1)]
                /\ UNCHANGED last
           ELSE Fail(t) /\ UNCHANGED fs
    /\ UNCHANGED <<db, open, config, now, lock>>

\* write_file, lines 152-156: dir_builder.create(parent)
create_dirs(t) ==
    /\ pc[t].op = "put" /\ pc[t].stage = "create_dirs"
    /\ LET dirs == create_dir_all(fs, Parent(pc[t].file), now)
       IN  /\ fs' = dirs.fs
           /\ IF dirs.ok
              THEN pc' = [pc EXCEPT ![t].stage = "create_file"] /\ UNCHANGED last
              ELSE Fail(t)
    /\ UNCHANGED <<db, open, config, now, lock>>

\* write_file, lines 160-177: the file, or its conflict file when the path is
\* a directory, is created and written
create_file(t) ==
    /\ pc[t].op = "put" /\ pc[t].stage = "create_file"
    /\ LET file == IF exists(fs, pc[t].file) /\ is_dir(fs, pc[t].file)
                   THEN get_conflict_file(pc[t].file) ELSE pc[t].file
           cr == FileCreate(fs, file, now)
       IN  IF cr.ok
           THEN /\ fs' = write_all(cr.fs, file, pc[t].arg.value.payload, now)
                /\ pc' = [pc EXCEPT ![t].stage = "save", ![t].arg.target = file]
                /\ UNCHANGED last
           ELSE Fail(t) /\ UNCHANGED fs
    /\ UNCHANGED <<db, open, config, now, lock>>

\* write_file, lines 180-182: put_data_info(file, encoding, timestamp), and
\* Storage::put returns
write_file_save(t) ==
    /\ pc[t].op = "put" /\ pc[t].stage = "save"
    /\ lock = "free"
    /\ db' = put_data_info(db, pc[t].arg.target, pc[t].arg.value.encoding,
                           pc[t].arg.timestamp)
    /\ last' = Call("put", pc[t].arg.key, "Inserted", Some(pc[t].arg.value),
                    Some(pc[t].arg.timestamp), None)
    /\ pc' = [pc EXCEPT ![t] = Idle]
    /\ UNCHANGED <<fs, open, config, now, lock>>

\* Storage::delete calls delete_file
delete_file_call(t, key, timestamp) ==
    /\ open /\ ~read_only
    /\ pc[t] = Idle
    /\ pc' = [pc EXCEPT ![t] =
                Running("delete", "remove", ZFileOf(key).fspath,
                        Locals(key, None, timestamp, 0, None, <<>>), {})]
    /\ UNCHANGED <<fs, db, open, config, now, last, lock>>

\* delete_file, lines 200-213: the file, or its conflict file, is removed
delete_remove(t) ==
    /\ pc[t].op = "delete" /\ pc[t].stage = "remove"
    /\ LET file == IF exists(fs, pc[t].file) /\ is_file(fs, pc[t].file)
                   THEN pc[t].file ELSE get_conflict_file(pc[t].file)
           rm == remove_file(fs, file, now)
       IN  IF ~exists(fs, file)
           THEN /\ pc' = [pc EXCEPT ![t].stage = "save", ![t].arg.target = file]
                /\ UNCHANGED <<fs, last>>
           ELSE IF rm.ok
           THEN /\ fs' = rm.fs
                /\ pc' = [pc EXCEPT ![t].stage = "parents", ![t].arg.target = file]
                /\ UNCHANGED last
           ELSE Fail(t) /\ UNCHANGED fs
    /\ UNCHANGED <<db, open, config, now, lock>>

\* delete_file, lines 215-223: the empty parent directories are removed
delete_parents(t) ==
    /\ pc[t].op = "delete" /\ pc[t].stage = "parents"
    /\ fs' = RemoveEmptyParents(fs, pc[t].arg.target)
    /\ pc' = [pc EXCEPT ![t].stage = "save"]
    /\ UNCHANGED <<db, open, config, now, last, lock>>

\* delete_file, lines 227-229: put_data_info(file, EMPTY, timestamp), and
\* Storage::delete returns
delete_file_save(t) ==
    /\ pc[t].op = "delete" /\ pc[t].stage = "save"
    /\ lock = "free"
    /\ db' = put_data_info(db, pc[t].arg.target, EMPTY, pc[t].arg.timestamp)
    /\ last' = Call("delete", pc[t].arg.key, "Deleted", None,
                    Some(pc[t].arg.timestamp), None)
    /\ pc' = [pc EXCEPT ![t] = Idle]
    /\ UNCHANGED <<fs, open, config, now, lock>>

\* the steps of the task of the storage inside write_file and delete_file
StorageStep(t) ==
    \/ conflict_create(t)
    \/ conflict_info(t)
    \/ conflict_save(t)
    \/ conflict_remove(t)
    \/ create_dirs(t)
    \/ create_file(t)
    \/ write_file_save(t)
    \/ delete_remove(t)
    \/ delete_parents(t)
    \/ delete_file_save(t)

-----------------------------------------------------------------------------
(* The storage on its own: created, used through put, delete and get,      *)
(* dropped and created again on the same directory                         *)

BaseDirName == <<"s", SEP>>

InitWith(oc) ==
    /\ fs = (<<>> :> DirNode(1)
             @@ <<<<"s">>>> :> DirNode(1)
             @@ <<<<"s">>, DB_FILENAME>> :> DirNode(1)
             @@ <<<<"s">>, DB_FILENAME, <<"CURRENT">>>> :> FileNode(0, 1))
    /\ db = <<>>
    /\ open = TRUE
    /\ base_dir = VolumeRoot \o BaseDirName
    /\ read_only = FALSE
    /\ follow_links = FALSE
    /\ keep_mime = TRUE
    /\ on_closure = oc
    /\ now = 1
    /\ last = NoCall
    /\ lock = "free"
    /\ pc = [t \in Tasks |-> Idle]

Init == InitWith("do_nothing")

\* the calls a caller makes with the given keys, values and timestamps
Calls(keys, values, timestamps) ==
    \/ \E k \in keys, v \in values, t \in timestamps : Put(k, v, t)
    \/ \E k \in keys, t \in timestamps : Delete(k, t)
    \/ \E k \in keys : Get(k)

Next == Calls(Keys, Values, Timestamps)

Spec == Init /\ [][Next]_vars

-----------------------------------------------------------------------------
(* The same storage called with keys that hold the conflict suffix *)

SuffixKeys == {KeyA, KeyAB, KeyAZ, KeyAZB}
OneValue == {[payload |-> 1, encoding |-> EncodingOf(1)]}

NextSuffix == Calls(SuffixKeys, OneValue, {NewerTs})

SpecSuffix == Init /\ [][NextSuffix]_vars

-----------------------------------------------------------------------------
(* The same storage called with keys nested three deep *)

DeepKeys == {KeyA, KeyAB, KeyABC}

NextDeep == Calls(DeepKeys, OneValue, {NewerTs})

SpecDeep == Init /\ [][NextDeep]_vars

-----------------------------------------------------------------------------
(* The storage dropped and created again on its directory, writable or    *)
(* read-only, keeping or deleting its files on closure                     *)

ReopenKeys == {NoKey, KeyA, KeyAB}

NextReopen ==
    \/ Calls(ReopenKeys, OneValue, {NewerTs})
    \/ DropStorage
    \/ \E ro \in BOOLEAN, oc \in {"do_nothing", "delete_all"} :
            CreateStorage(BaseDirName, ro, FALSE, TRUE, oc)

SpecReopen == Init /\ [][NextReopen]_vars

-----------------------------------------------------------------------------
(* The storage called with keys that hold ".." segments *)

KeyUpX == <<"..", SEP, "x">>
KeyAUpUpX == <<"a", SEP, "..", SEP, "..", SEP, "x">>
EscapeKeys == {KeyA, KeyAB, KeyUpX, KeyAUpUpX}

NextEscape == Calls(EscapeKeys, OneValue, {NewerTs})

SpecEscape == Init /\ [][NextEscape]_vars

-----------------------------------------------------------------------------
(* The storage on a directory in which symbolic links are made from       *)
(* outside, with follow_links left at its default (false)                 *)

LinkName == <<"l">>
KeyL == <<"l">>
KeyLB == <<"l", SEP, "b">>
LinkKeys == {KeyA, KeyAB, KeyL}
LinkTargets == {<<<<"s">>, <<"a">>>>}

NextLinks ==
    \/ Calls(LinkKeys, OneValue, {NewerTs})
    \/ \E e \in {AllExpr, BelowAExpr} : Matching(e)
    \/ \E target \in LinkTargets : MakeSymlink(LinkName, target)

SpecLinks == Init /\ [][NextLinks]_vars

-----------------------------------------------------------------------------
(* The storage, with or without the guessing of encodings, on a directory *)
(* in which files are written from outside                                *)

KeyTxt == <<"f", ".txt">>
FallbackKeys == {KeyA, KeyTxt}
FallbackNow == 3

NextFallback ==
    \/ Calls(FallbackKeys, OneValue, {NewerTs})
    \/ \E k \in FallbackKeys, c \in {0, 1} : PlaceFile(k, c)
    \/ now < FallbackNow /\ Tick(1)
    \/ DropStorage
    \/ \E km \in BOOLEAN : CreateStorage(BaseDirName, FALSE, FALSE, km, "do_nothing")

SpecFallback == Init /\ [][NextFallback]_vars

-----------------------------------------------------------------------------
(* The storage and the sweeps of its garbage collection, while the clock *)
(* advances and files are removed from outside                           *)

GCPaths == {to_fspath(KeyA), to_fspath(KeyAB), get_conflict_file(to_fspath(KeyA))}

\* the clock is read every GCStep seconds: at 1, at 4 and at 7, where the
\* time limit of a sweep is the time of the newer timestamp
GCStep == (MIN_DELAY_BEFORE_REMOVAL + 1) \div 2

NextGC ==
    \/ \E k \in Keys, v \in OneValue, t \in Timestamps : Put(k, v, t)
    \/ \E k \in Keys, t \in Timestamps : Delete(k, t)
    \/ \E path \in GCPaths : RemoveOutside(path)
    \/ Tick(GCStep)
    \/ GarbageCollection

SpecGC == Init /\ [][NextGC]_vars

-----------------------------------------------------------------------------
(* DataInfoMgr called by two tasks while its garbage collection runs, on a *)
(* storage that deletes everything when dropped                            *)

LockFiles == {to_fspath(KeyA)}
LockArgs == {[encoding |-> TEXT_PLAIN, timestamp |-> OlderTs]}

NextLock ==
    \/ \E file \in LockFiles, arg \in LockArgs : LockCall("c1", "put_data_info", file, arg)
    \/ \E file \in LockFiles :
          LockCall("c1", "rename_key", file, get_conflict_file(file))
    \/ \E file \in LockFiles, op \in {"get_encoding_and_timestamp", "get_timestamp"} :
          LockCall("c2", op, file, <<>>)
    \/ LockCall("c2", "get_deleted_entries", <<>>, <<>>)
    \/ DropCall("c1")
    \/ \E t \in Tasks : Acquire(t)
    \/ \E t \in Callers :
          \/ put_data_info_locked(t)
          \/ get_locked(t)
          \/ rename_key_copy(t)
          \/ rename_key_delete(t)
          \/ get_deleted_entries_next(t)
          \/ get_deleted_entries_return(t)
          \/ close_locked(t)
          \/ DropEnd(t)
    \/ GcCall
    \/ GcNext
    \/ GcDelete
    \/ GcReturn
    \/ Tick(GCStep)

SpecLock == InitWith("delete_all") /\ [][NextLock]_vars

-----------------------------------------------------------------------------
(* The storage whose puts and deletes are interleaved, step by step, with *)
(* the sweeps of its garbage collection                                   *)

SweepTimestamps == {OlderTs}
\* the clock is read at 1 and, once the records of the older timestamp are
\* before the time limit of a sweep, at 7
SweepStep == MIN_DELAY_BEFORE_REMOVAL + 1

NextSweep ==
    \/ \E k \in Keys, v \in OneValue, t \in SweepTimestamps :
          write_file_call(StorageTask, k, v, t)
    \/ \E k \in Keys, t \in SweepTimestamps : delete_file_call(StorageTask, k, t)
    \/ StorageStep(StorageTask)
    \/ GcCall
    \/ Acquire(GCTask)
    \/ GcNext
    \/ GcDelete
    \/ GcReturn
    \/ Tick(SweepStep)

\* the Timer runs the GarbageCollectionEvent every GC_PERIOD as long as the
\* DataInfoMgr lives, and a sweep that has started goes to its end: it waits
\* only for the Mutex, which the functions of DataInfoMgr hold for one access
Sweep == GcCall \/ Acquire(GCTask) \/ GcNext \/ GcDelete \/ GcReturn

SpecSweep == Init /\ [][NextSweep]_vars /\ WF_vars(Sweep)

-----------------------------------------------------------------------------
(* The storage and the listings of its keys: matching_files with key      *)
(* expressions with and without wildcard                                  *)

NoStarExpr == KeyA
ListExprs == {AllExpr, BelowAExpr, SubtreeAExpr, NoStarExpr}

NextListing ==
    \/ Calls(Keys, OneValue, {NewerTs})
    \/ \E e \in ListExprs : Matching(e)
    \/ GetAllEntries

SpecListing == Init /\ [][NextListing]_vars

-----------------------------------------------------------------------------
(* The storage and rename_key called on the paths of its records *)

\* the calls on a storage and the timestamp FilesMgr::get_timestamp gives
NextTimestamp ==
    \/ Calls(Keys, OneValue, Timestamps)
    \/ \E k \in Keys : GetTimestamp(k)
SpecTimestamp == Init /\ [][NextTimestamp]_vars

\* the calls on a storage whose device may be full when a put writes
FullKeys == {KeyA, KeyAB, KeyAZB}
NextFull ==
    \/ \E k \in FullKeys, v \in OneValue : Put(k, v, NewerTs)
    \/ \E k \in FullKeys : Delete(k, OlderTs)
    \/ \E k \in FullKeys, v \in OneValue : PutDiskFull(k, v, OlderTs)
SpecFull == Init /\ [][NextFull]_vars

\* a storage of either closure policy that is used, dropped and created again;
\* its directory may be removed from outside
Policies == {"do_nothing", "delete_all"}
NextTeardown ==
    \/ pc[StorageTask] = Idle /\ Calls(Keys, OneValue, {NewerTs})
    \/ pc[StorageTask] = Idle /\ RemoveBaseOutside
    \/ on_closure = "do_nothing" /\ DropStorage
    \/ DropCall(StorageTask)
    \/ Acquire(StorageTask)
    \/ close_locked(StorageTask)
    \/ DropEnd(StorageTask)
    \/ \E oc \in Policies : CreateStorage(BaseDirName, FALSE, FALSE, TRUE, oc)
SpecTeardown == (\E oc \in Policies : InitWith(oc)) /\ [][NextTeardown]_vars

\* the calls with no key and with the key a, and the listing of all entries
RootKeys == {NoKey, KeyA}
NextRoot ==
    \/ Calls(RootKeys, OneValue, Timestamps)
    \/ GetAllEntries
SpecRoot == Init /\ [][NextRoot]_vars

RenamePaths == {to_fspath(KeyA), to_fspath(KeyAB), get_conflict_file(to_fspath(KeyA))}

NextRename ==
    \/ Calls(Keys, OneValue, Timestamps)
    \/ \E from \in RenamePaths, to \in RenamePaths : RenameKey(from, to)

SpecRename == Init /\ [][NextRename]_vars

-----------------------------------------------------------------------------
(* Properties *)

FsPath(key) == ZFileOf(key).fspath
\* what Storage::get returns for a key in the current state
GetNow(key) == read_file(fs, db, FsPath(key))
StoredData(value, timestamp) ==
    Some([payload |-> value.payload, encoding |-> value.encoding,
          timestamp |-> timestamp])

AllKeys == {KeyA, KeyAB, KeyABC, KeyAZ, KeyAZB}

StrictKeyPrefix(p, k) ==
    IsPrefix(PathBufFrom(p), PathBufFrom(k)) /\ PathBufFrom(p) # PathBufFrom(k)

C2_OlderPutIsNoOp ==
    [][(/\ last'.op = "put" /\ last'.timestamp # None
        /\ GetNow(last'.key) # None
        /\ TsLess(last'.timestamp[1], GetNow(last'.key)[1].timestamp))
       => (fs' = fs /\ db' = db)]_vars

\* C3 (last writer wins for deletes, as claimed): a delete whose timestamp is
\* not newer than the key's timestamp (data-info, else the file's time) leaves
\* the file tree and the data-info as they are.
C3_OlderDeleteIsDropped ==
    [][(/\ last'.op = "delete" /\ last'.timestamp # None
        /\ get_timestamp(fs, db, FsPath(last'.key)) # None
        /\ ~TsLess(get_timestamp(fs, db, FsPath(last'.key))[1], last'.timestamp[1]))
       => (fs' = fs /\ db' = db)]_vars

\* C4 (conflict resolution, as claimed): a put on a key k while a strict
\* prefix p of k is stored succeeds and leaves what get(p) returns as it was,
\* and get(k) returns what was put.
C4_PrefixKeyKept ==
    [][\A p \in AllKeys :
          (/\ last'.op = "put" /\ ~read_only
           /\ StrictKeyPrefix(p, last'.key) /\ GetNow(p) # None)
          => /\ last'.res = "Inserted"
             /\ read_file(fs', db', FsPath(p)) = GetNow(p)
             /\ read_file(fs', db', FsPath(last'.key))
                  = StoredData(last'.value[1], last'.timestamp[1])]_vars

\* C5 (as claimed): once a delete(k, t) with t newer than k's timestamp has
\* completed, get(k) returns nothing.
C5_DeleteMakesAbsent ==
    [][(/\ last'.op = "delete" /\ last'.res = "Deleted"
        /\ get_timestamp(fs, db, FsPath(last'.key)) # None
        /\ TsLess(get_timestamp(fs, db, FsPath(last'.key))[1], last'.timestamp[1]))
       => read_file(fs', db', FsPath(last'.key)) = None]_vars

\* the file a delete of the key acts on in the current state: the key's own
\* path when it is a regular file, else the conflict-suffixed path
DeleteTarget(key) ==
    IF exists(fs, FsPath(key)) /\ is_file(fs, FsPath(key)) THEN FsPath(key)
    ELSE get_conflict_file(FsPath(key))

InsideBaseDir(loc) == IsPrefix(PathBufFrom(base_dir), loc)
C6_NoRootEscape ==
    /\ \A loc \in DOMAIN fs : loc = <<>> \/ InsideBaseDir(loc)
    /\ (last.op = "get" /\ last.data # None)
          => \/ InsideBaseDir(Stat(fs, FsPath(last.key)))
             \/ InsideBaseDir(Stat(fs, get_conflict_file(FsPath(last.key))))

\* C7 (symlink containment, as claimed): with follow_links false, a file
\* whose path has a symbolic link below the base directory on it (an ancestor
\* or the file itself) is not the file a get returns, and is not among the
\* files matching_files yields.
ThroughSymlink(path) ==
    /\ is_file(fs, path)
    /\ \E i \in Len(PathBufFrom(base_dir)) + 1 .. Len(path) :
            IsLinkAt(fs, LStat(fs, SubSeq(path, 1, i)))
\* the file whose content get(key) returns, when it returns one
FileRead(key) ==
    IF perform_read(fs, db, FsPath(key)) # None THEN FsPath(key)
    ELSE get_conflict_file(FsPath(key))
C7_SymlinkContainment ==
    ~follow_links =>
        /\ \A k \in LinkKeys \cup {KeyLB} :
              GetNow(k) # None => ~ThroughSymlink(FileRead(k))
        /\ \A z \in matching_files(fs, AllExpr) : ~ThroughSymlink(z.fspath)

\* C7 (symlink containment, amended): with follow_links false, a file whose
\* path has a symbolic link below the base directory on it is not the file a
\* get returns, and no file matching_files yields lies below a directory that
\* is a symbolic link; a symbolic link itself may be yielded.
C7_ContainmentBelowLinks ==
    ~follow_links =>
        /\ \A k \in LinkKeys \cup {KeyLB} :
              GetNow(k) # None => ~ThroughSymlink(FileRead(k))
        /\ \A z \in matching_files(fs, AllExpr) :
              \A i \in Len(PathBufFrom(base_dir)) + 1 .. Len(z.fspath) - 1 :
                  ~IsLinkAt(fs, LStat(fs, SubSeq(z.fspath, 1, i)))
\* a file is stored below a directory to which a symbolic link leads, the key
\* that goes through the link reads as absent, and matching_files has just
\* yielded the link itself but not the key through it
C7_Witness ==
    /\ ~follow_links
    /\ ThroughSymlink(FsPath(KeyLB))
    /\ GetNow(KeyLB) = None
    /\ last.op = "matching" /\ last.key = AllExpr
    /\ KeyL \in last.data /\ KeyAB \in last.data /\ KeyLB \notin last.data

\* C8 (read-only mode): on a read-only storage every put and every delete is
\* rejected with the read-only error and changes neither the file tree nor
\* the data-info database.
C8_ReadOnlyRejects ==
    [][(read_only /\ last'.op \in {"put", "delete"})
       => /\ last'.res = "Err: read-only"
          /\ fs' = fs
          /\ db' = db]_vars
\* a delete of a stored key was rejected by a read-only storage, and the key
\* is still stored
C8_Witness ==
    /\ read_only
    /\ last.op = "delete" /\ last.res = "Err: read-only"
    /\ GetNow(last.key) # None
    /\ DOMAIN db # {}

\* C10 (idempotent delete, as claimed): a delete of a key for which get
\* returns nothing succeeds and leaves the file tree as it was, and a second
\* delete of the key succeeds too and leaves the same file tree, with get
\* still returning nothing.
C10_IdempotentDelete ==
    [][(last'.op = "delete" /\ ~read_only /\ GetNow(last'.key) = None)
       => /\ last'.res = "Deleted"
          /\ read_file(fs', db', FsPath(last'.key)) = None
          /\ \A t \in Timestamps :
                LET again == delete_file(fs', db', FsPath(last'.key), t) IN
                /\ again.ok
                /\ again.fs = fs'
                /\ read_file(again.fs, again.db, FsPath(last'.key)) = None]_vars

\* C13 (reserved suffix cannot collide, as claimed): the conflict file of a
\* key is the path of no other key a caller can give, and two distinct keys
\* for which get returns data are never read from one and the same file.
C13_NoSuffixCollision ==
    \A k \in AllKeys : \A k2 \in AllKeys \ {k} :
        /\ (GetNow(k) # None /\ GetNow(k2) # None) => FileRead(k) # FileRead(k2)
        /\ (GetNow(k) # None /\ FileRead(k) = get_conflict_file(FsPath(k)))
              => FsPath(k2) # get_conflict_file(FsPath(k))

\* C16 (conflict resolution relocates the record, as claimed): when a put
\* pushes the file of a shorter key p aside to its conflict file, the
\* data-info afterwards holds under the conflict file the encoding and
\* timestamp p had before, and holds no record under p's own path any more.
C16_RecordRelocated ==
    [][\A p \in AllKeys :
         (/\ last'.op = "put" /\ last'.res = "Inserted"
          /\ StrictKeyPrefix(p, last'.key)
          /\ exists(fs, FsPath(p)) /\ is_file(fs, FsPath(p)))
         => /\ get_conflict_file(FsPath(p)) \in DOMAIN db'
            /\ decode_encoding_timestamp_from_value(db'[get_conflict_file(FsPath(p))])
                 = get_encoding_and_timestamp(fs, db, FsPath(p))
            /\ FsPath(p) \notin DOMAIN db']_vars

\* C15 (put on a directory path, as claimed): a put on a key whose path is a
\* directory succeeds, writes the content to the conflict file and the
\* record (encoding, timestamp) under the conflict file's path, and leaves the
\* directory in place and every key below it readable as before.
C15_PutOnDirectory ==
    [][(/\ last'.op = "put" /\ ~read_only
        /\ exists(fs, FsPath(last'.key)) /\ is_dir(fs, FsPath(last'.key)))
       => /\ last'.res = "Inserted"
          /\ LET conflict_file == get_conflict_file(FsPath(last'.key)) IN
             /\ is_file(fs', conflict_file)
             /\ fs'[Stat(fs', conflict_file)].content = last'.value[1].payload
             /\ conflict_file \in DOMAIN db'
             /\ decode_encoding_timestamp_from_value(db'[conflict_file])
                  = [encoding |-> last'.value[1].encoding,
                     timestamp |-> last'.timestamp[1]]
          /\ is_dir(fs', FsPath(last'.key))
          /\ \A q \in AllKeys :
                StrictKeyPrefix(last'.key, q)
                   => read_file(fs', db', FsPath(q)) = GetNow(q)]_vars

\* C17 (delete directory cleanup, as claimed): a delete removes from the file
\* tree only the key's own file (the direct file, else the conflict file) and
\* directories above it that are left empty; it leaves no empty directory
\* above the removed file below the base directory, keeps the base directory,
\* changes no other node, and the file of every other key is still there.
Removed == DOMAIN fs \ DOMAIN fs'
C17_DeleteCleanup ==
    [][(last'.op = "delete" /\ last'.res = "Deleted")
       => LET file == LStat(fs, DeleteTarget(last'.key)) IN
          /\ DOMAIN fs' \subseteq DOMAIN fs
          /\ \A loc \in DOMAIN fs' :
                fs'[loc].kind = fs[loc].kind
                /\ (fs[loc].kind = "file" => fs'[loc] = fs[loc])
          /\ \A loc \in Removed :
                \/ loc = file
                \/ /\ IsDirAt(fs, loc) /\ IsPrefix(loc, file)
                   /\ Children(fs, loc) \subseteq Removed
                   /\ InsideBaseDir(loc) /\ loc # PathBufFrom(base_dir)
          /\ file \in Removed =>
                \A i \in Len(PathBufFrom(base_dir)) + 1 .. Len(file) - 1 :
                    SubSeq(file, 1, i) \in DOMAIN fs'
                       => Children(fs', SubSeq(file, 1, i)) # {}
          /\ PathBufFrom(base_dir) \in DOMAIN fs'
          /\ \A q \in SuffixKeys \ {last'.key} :
                GetNow(q) # None => read_file(fs', db', FsPath(q)) = GetNow(q)]_vars

\* C12 (fallback metadata): a regular file that lies in the base directory
\* under a key's path and has no record in the data-info is returned by get
\* with its whole content, the encoding guessed from its extension (the
\* octet-stream default when keep_mime is off) and the timestamp made of its
\* modification time and the fallback id.
GuessedEncoding(key) ==
    IF keep_mime /\ key[Len(key)] = ".txt" THEN TEXT_PLAIN ELSE APP_OCTET_STREAM
C12_FallbackMetadata ==
    open =>
      \A k \in FallbackKeys :
        (/\ IsFileAt(fs, LStat(fs, FsPath(k)))
         /\ FsPath(k) \notin DOMAIN db)
        => GetNow(k) = Some([payload |-> fs[LStat(fs, FsPath(k))].content,
                             encoding |-> GuessedEncoding(k),
                             timestamp |-> Timestamp(fs[LStat(fs, FsPath(k))].mtime,
                                                     FallbackId)])
\* a get has just returned a file written from outside after the clock had
\* advanced, with the guessed text encoding; and a storage without guessing
\* has returned such a file as octet-stream
C12_Witness ==
    /\ last.op = "get" /\ last.key = KeyTxt /\ last.data # None
    /\ FsPath(KeyTxt) \notin DOMAIN db
    /\ last.data[1].timestamp = Timestamp(2, FallbackId)
    /\ last.data[1].payload = 1
    /\ ~keep_mime /\ last.data[1].encoding = APP_OCTET_STREAM

\* C19 (concurrent writers to one key, as claimed): the puts on one storage
\* are applied one after the other, in either order; whatever the order, after
\* a put on a key, get returns for this key either what it returned before or
\* the content, encoding and timestamp of this put, all three of the same
\* put, and never a timestamp older than the one it returned before.
C19_NewestPutWins ==
    [][(last'.op = "put" /\ last'.res = "Inserted")
       => LET before == GetNow(last'.key)
              after  == read_file(fs', db', FsPath(last'.key))
          IN  /\ after \in {before, StoredData(last'.value[1], last'.timestamp[1])}
              /\ before # None
                   => /\ after # None
                      /\ ~TsLess(after[1].timestamp, before[1].timestamp)]_vars

\* C14 (matching soundness): every key yielded by matching_files intersects
\* the key expression given; it is the key of an entry of the base directory
\* that is not a directory, found either under the key's own path or under
\* this path with the conflict suffix (which the key does not carry); and no
\* component of its path is the directory of the data-info.
EntryAt(path) == IF follow_links THEN Stat(fs, path) ELSE LStat(fs, path)
IsEntry(path) == Exists(fs, EntryAt(path)) /\ ~IsDirAt(fs, EntryAt(path))
C11_SweepEffect ==
    [][last'.op = "gc"
       => /\ DOMAIN db' \subseteq DOMAIN db
          /\ \A path \in DOMAIN db :
               /\ path \in DOMAIN db'
                    <=> (exists(fs, path) \/ db[path][1] >= now - MIN_DELAY_BEFORE_REMOVAL)
               /\ path \in DOMAIN db' => db'[path] = db[path]
          /\ fs' = fs]_vars
\* a sweep has just deleted a record and kept both a younger record whose
\* file is gone and an old record whose path exists
C11_Witness ==
    /\ last.op = "gc" /\ last.data # {}
    /\ \E path \in DOMAIN db :
         ~exists(fs, path) /\ db[path][1] >= now - MIN_DELAY_BEFORE_REMOVAL
    /\ \E path \in DOMAIN db :
         exists(fs, path) /\ db[path][1] < now - MIN_DELAY_BEFORE_REMOVAL

\* C18 (lock of the data-info): the functions of DataInfoMgr (put_data_info,
\* get_encoding_and_timestamp, get_timestamp, rename_key, get_deleted_entries,
\* the sweep of the garbage collection, close) read and write the database
\* only while they hold its Mutex, and two tasks never hold it together: a
\* step that reads or writes the database is taken by the holder of the
\* lock, at a moment when no other task is between the copy and the delete
\* of rename_key or inside an iteration.
InDatabase(t) == pc[t].stage \in Holding
Accesses(t) == InDatabase(t) /\ pc'[t] # pc[t]
C18_MetadataLock ==
    [][/\ \A t \in Tasks : Accesses(t) =>
            /\ lock = t
            /\ \A u \in Tasks \ {t} : ~InDatabase(u)
       /\ (db' # db \/ (last' # last /\ last'.op \notin {"none", "drop"}))
            => \E t \in Tasks : Accesses(t)]_vars
\* rename_key has copied the record and not yet deleted the old one, while
\* the sweep and another caller wait for the lock
C18_Witness ==
    /\ pc["c1"].op = "rename_key" /\ pc["c1"].stage = "copied"
    /\ pc["c2"].stage = "lock"
    /\ pc[GCTask].stage = "lock"
    /\ lock = "c1"

\* C20 (the sweeps go on, and do not harm the calls they are interleaved
\* with): as long as the storage is open, a record whose path does not exist
\* and whose time is before the limit does not stay so for ever, the sweep
\* deletes it unless the storage writes the file or the record again; a
\* record is deleted only by the sweep, which has found its path missing;
\* a put that returns Inserted leaves its value readable; and whenever the
\* storage is outside put and delete, the file read for a key has its record.
Eligible(path) ==
    /\ path \in DOMAIN db
    /\ ~exists(fs, path)
    /\ db[path][1] < now - MIN_DELAY_BEFORE_REMOVAL
SweepPaths ==
    {PathBufFrom(VolumeRoot \o BaseDirName \o KeyA),
     PathBufFrom(VolumeRoot \o BaseDirName \o KeyAB),
     get_conflict_file(PathBufFrom(VolumeRoot \o BaseDirName \o KeyA)),
     get_conflict_file(PathBufFrom(VolumeRoot \o BaseDirName \o KeyAB))}
C20_SweepLiveAndHarmless ==
    /\ \A path \in SweepPaths : Eligible(path) ~> ~Eligible(path)
    /\ [][/\ \A path \in DOMAIN db \ DOMAIN db' :
               pc[GCTask].stage = "deleting" /\ pc[GCTask].file = path
          /\ (last'.op = "put" /\ last'.res = "Inserted" /\ last' # last)
               => read_file(fs', db', FsPath(last'.key))
                    = StoredData(last'.value[1], last'.timestamp[1])]_vars
    /\ [](/\ DOMAIN db \subseteq SweepPaths
          /\ pc[StorageTask] = Idle
                => \A k \in Keys : GetNow(k) # None => FileRead(k) \in DOMAIN db)
\* a sweep is inside a put: the put has resolved a conflict and not yet
\* created its file, the sweep has just deleted the old record left for the
\* path of this file, and has still to visit the old record of the conflict
\* file, which exists
C20_Witness ==
    /\ pc[StorageTask].op = "put" /\ pc[StorageTask].stage \in {"create_dirs", "create_file"}
    /\ pc[StorageTask].arg.i > 0
    /\ pc[GCTask].op = "gc" /\ pc[GCTask].stage = "held"
    /\ last.op = "gc" /\ last.data = {pc[StorageTask].file}
    /\ \E path \in pc[GCTask].pending :
         path \in DOMAIN db /\ exists(fs, path) /\ db[path][1] < pc[GCTask].arg

\* C24 (matching never panics, as claimed): whatever the key expression, with
\* or without a wildcard, matching_files returns; it never panics.
C24_MatchingNeverPanics ==
    last.op = "matching" => last.res # "panic"

\* C23 (rename of a record, as claimed): rename_key(from, to) fails when from
\* has no record, and then the database is as before; when it succeeds, for
\* every from and to, to holds the record from held, from holds none and no
\* other record has changed.
C23_RenameMovesRecord ==
    [][last'.op = "rename_key"
       => LET from == last'.key
              to == last'.data
          IN  /\ last'.res = "Err" <=> from \notin DOMAIN db
              /\ last'.res = "Err" => db' = db
              /\ last'.res = "Ok"
                   => /\ to \in DOMAIN db' /\ db'[to] = db[from]
                      /\ from \notin DOMAIN db'
                      /\ \A q \in (DOMAIN db \cup DOMAIN db') \ {from, to} :
                           q \in DOMAIN db /\ q \in DOMAIN db' /\ db'[q] = db[q]]_vars
\* C23 (rename of a record, for two different keys): rename_key(from, to)
\* with from # to fails when from has no record, and then the database is as
\* before; when it succeeds, to holds the record from held, from holds none
\* and no other record has changed.  (With from = to the record is put again
\* and then deleted: the key is left without record.)
C23_RenameDistinct ==
    [][(last'.op = "rename_key" /\ last'.key # last'.data)
       => LET from == last'.key
              to == last'.data
          IN  /\ last'.res = "Err" <=> from \notin DOMAIN db
              /\ last'.res = "Err" => db' = db
              /\ last'.res = "Ok"
                   => /\ to \in DOMAIN db' /\ db'[to] = db[from]
                      /\ from \notin DOMAIN db'
                      /\ \A q \in (DOMAIN db \cup DOMAIN db') \ {from, to} :
                           q \in DOMAIN db /\ q \in DOMAIN db' /\ db'[q] = db[q]]_vars

\* a record has been moved to another key, which held an older record, while
\* a third record stayed
C23_Witness ==
    /\ last.op = "rename_key" /\ last.res = "Ok"
    /\ last.key # last.data
    /\ last.data \in DOMAIN db /\ last.key \notin DOMAIN db
    /\ Cardinality(DOMAIN db) >= 2

\* C26 (get_timestamp agrees with get): the timestamp get_timestamp has
\* returned for a key is the timestamp of the data get returns for that key,
\* whenever get returns data.
C26_TimestampAgrees ==
    (last.op = "get_timestamp" /\ GetNow(last.key) # None)
        => last.data = Some(GetNow(last.key)[1].timestamp)

\* C27 (delete timestamp is visible): when delete(k, t) has completed,
\* get_timestamp(k) gives t.
C27_DeleteTimestampVisible ==
    [][(last'.op = "delete" /\ last'.res = "Deleted")
        => get_timestamp(fs', db', FsPath(last'.key)) = last'.timestamp]_vars

\* C30 (operations on one key do not disturb other keys): a put or a delete
\* on a key leaves what get returns for every other key as it was.
C30_OtherKeysUndisturbed ==
    [][last'.op \in {"put", "delete"}
        => \A k \in Keys \ {last'.key} :
              read_file(fs', db', FsPath(k)) = GetNow(k)]_vars

Record(d, path) == IF path \in DOMAIN d THEN Some(d[path]) ELSE None

\* the file a put on a key writes: write_file, lines 160-164
Target(f, key) ==
    IF exists(f, FsPath(key)) /\ is_dir(f, FsPath(key))
    THEN get_conflict_file(FsPath(key)) ELSE FsPath(key)

\* C25 (a failed put leaves the index alone): when a put returns an error, the
\* record of the key's file and the record of its conflict file are what they
\* were before the put; when a put succeeds, the file it wrote holds the
\* payload and the record of that file holds the put's encoding and timestamp.
C25_FailedPutKeepsRecord ==
    [][/\ (last'.op = "put" /\ last'.res # "Inserted") =>
            /\ Record(db', FsPath(last'.key)) = Record(db, FsPath(last'.key))
            /\ Record(db', get_conflict_file(FsPath(last'.key))) =
                   Record(db, get_conflict_file(FsPath(last'.key)))
       /\ (last'.op = "put" /\ last'.res = "Inserted") =>
            /\ is_file(fs', Target(fs', last'.key))
            /\ fs'[Stat(fs', Target(fs', last'.key))].content = last'.value[1].payload
            /\ DataInfo_get_encoding_and_timestamp(db', Target(fs', last'.key)) =
                   Some([encoding |-> last'.value[1].encoding,
                         timestamp |-> last'.timestamp[1]])]_vars

\* a put has failed at File::create on a key that had a record: the key's path
\* and its conflict path are both directories
C25_Witness ==
    /\ last.op = "put" /\ last.res = "Err"
    /\ is_dir(fs, FsPath(last.key))
    /\ is_dir(fs, get_conflict_file(FsPath(last.key)))
    /\ get_conflict_file(FsPath(last.key)) \in DOMAIN db

\* C28 (matching is complete): matching_files has yielded every key that
\* intersects its expression and for which get returns data; get_all_entries
\* has returned every key for which get returns data.
C28_MatchingComplete ==
    /\ (last.op = "matching" /\ last.res = "Ok")
         => \A k \in Keys : (GetNow(k) # None /\ intersect(k, last.key))
                               => k \in last.data
    /\ last.op = "get_all_entries"
         => \A k \in Keys : GetNow(k) # None
                               => \E e \in last.data : e.key = Some(k)

\* C29 (no duplicate keys in a listing): matching_files yields no key for two
\* files, and get_all_entries returns no key in two elements.
C29_NoDuplicateKeys ==
    /\ (last.op = "matching" /\ last.res = "Ok")
         => \A z1, z2 \in matching_files(fs, last.key) :
                z1.zpath = z2.zpath => z1 = z2
    /\ last.op = "get_all_entries"
         => \A e1, e2 \in last.data : e1.key = e2.key => e1 = e2

\* the directory of the index exists: close has not destroyed it
IndexExists == exists(fs, Append(PathBufFrom(base_dir), DB_FILENAME))

\* C22 (the garbage collection stops at teardown): no sweep starts once the
\* storage is dropped, and no sweep holds the index after close has flushed
\* and destroyed it.
C22_NoSweepAfterClose ==
    /\ (pc[GCTask].op = "gc" /\ pc[GCTask].stage = "lock") => open
    /\ lock = GCTask => IndexExists

RootFile == to_fspath(ROOT_KEY)

\* the elements of a listing that stand for the root entry
RootElements(entries) == {e \in entries : e.key = None}

\* C31 (root key): a put, a get and a delete with no key act on the file of the
\* reserved entry "@root": the put leaves the payload there, the get returns
\* what is read there, the delete leaves nothing to read there.  When that
\* entry can be read, get_all_entries returns it in exactly one element, with
\* no key and with the timestamp get returns for no key; it returns no element
\* without key when the entry cannot be read, and never an element whose key is
\* "@root".
C31_RootKey ==
    [][/\ (last'.op = "put" /\ last'.key = NoKey /\ last'.res = "Inserted")
            => /\ is_file(fs', RootFile)
               /\ fs'[Stat(fs', RootFile)].content = last'.value[1].payload
               /\ read_file(fs', db', FsPath(NoKey)) =
                      StoredData(last'.value[1], last'.timestamp[1])
       /\ (last'.op = "get" /\ last'.key = NoKey)
            => last'.data = read_file(fs, db, RootFile)
       /\ (last'.op = "delete" /\ last'.key = NoKey /\ last'.res = "Deleted")
            => (~exists(fs', RootFile) /\ read_file(fs', db', FsPath(NoKey)) = None)
       /\ last'.op = "get_all_entries"
            => /\ read_file(fs, db, FsPath(NoKey)) # None
                    => /\ Cardinality(RootElements(last'.data)) = 1
                       /\ \A e \in RootElements(last'.data) :
                             e.timestamp = read_file(fs, db, FsPath(NoKey))[1].timestamp
               /\ read_file(fs, db, FsPath(NoKey)) = None
                    => RootElements(last'.data) = {}
               /\ \A e \in last'.data : e.key # Some(ROOT_KEY)]_vars

\* get_all_entries has returned the root entry, put with the newer timestamp
\* over an older one, beside the entry of the key a
C31_Witness ==
    /\ last.op = "get_all_entries"
    /\ \E e \in last.data : e.key = None /\ e.timestamp = NewerTs
    /\ \E e \in last.data : e.key = Some(KeyA)
    /\ is_file(fs, RootFile)

====
